---- MODULE Spec2Model ----
(***************************************************************************)
(* Flow Journal backend (backend/app.py): the request handlers, the        *)
(* authentication dependency and the tables they read and write.           *)
(*                                                                         *)
(* Every handler runs on a pooled connection in autocommit mode (there is  *)
(* no conn.transaction() in app.py), so each awaited statement is one      *)
(* atomic step of the store and other requests interleave between the      *)
(* statements of one request.  A caller is a request in flight: the        *)
(* dependency get_current_user is its first statement, the handler's own   *)
(* statements follow.  The route and its body are inputs of the handler    *)
(* step: nothing reads them before.                                        *)
(*                                                                         *)
(* The created_at / updated_at columns only hold the clock (NOW()); no     *)
(* handler reads them back for a decision and they are left out.           *)
(***************************************************************************)
EXTENDS Integers, Sequences, FiniteSets, TLC

VARIABLES
    users,               \* table users: rows in insertion order
    user_settings,       \* table user_settings
    intro_reflection,    \* table intro_reflection
    daily_entries,       \* table daily_entries
    weekly_reflections,  \* table weekly_reflections
    final_reflection,    \* table final_reflection
    next_user_id,        \* the sequence behind users.id (RETURNING id)
    pc,                  \* per caller: where its request stands
    current_user,        \* per caller: dict(user) returned by get_current_user
    user_id,             \* per caller: register's local user_id
    result,              \* status and detail of the response the last step sent, if any
    served,              \* number of writing requests accepted so far
    reg_ok,              \* history: "User created successfully" answers per username
    last_update          \* history: last acknowledged emotion wheel per user id

tables == <<users, user_settings, intro_reflection, daily_entries,
            weekly_reflections, final_reflection>>
callers == <<pc, current_user, user_id>>
history == <<reg_ok, last_update>>
vars == <<tables, next_user_id, callers, result, served, history>>

----------------------------------------------------------------------------
(* Bounds of the model *)

\* writing requests (register, save_*, update_*) accepted in one run
MaxWrites == 3

Procs == {"c1", "c2"}
Usernames == {"alice", "bob"}
Passwords == {"a", "b"}
\* dates written yyyymmdd, so that the integer order is the calendar order
Dates == {20240101}
Weeks == {1}
Texts == {"x", "y"}
Wheels == {[joy |-> "x"]}

\* register requests of a run: a username not yet stored is registered with
\* its own password, a stored one is tried again with any password
FirstPassword(username) == IF username = "alice" THEN "a" ELSE "b"
Taken(username) == \E i \in DOMAIN users : users[i].username = username

\* Optional[...] values of the pydantic models
None == <<>>
Some(v) == <<v>>

----------------------------------------------------------------------------
(* Helper functions *)

\* hashlib.sha256(password.encode()).hexdigest(), on the passwords of the
\* model (leading 8 hex digits of the digest)
hash_password(password) ==
    CASE password = "a" -> "ca978112"
      [] password = "b" -> "3e23e816"
      [] OTHER -> "e3b0c442"

\* column defaults the INSERTs of register rely on
DefaultIntroCompleted == FALSE
DefaultEmotionWheel == [joy |-> "default"]

\* SELECT ... FROM tbl WHERE ...: the rows at the matching places, in table order
Select(tbl, matching) ==
    LET F[k \in 0..Len(tbl)] ==
            IF k = 0 THEN <<>>
            ELSE IF k \in matching THEN Append(F[k - 1], tbl[k]) ELSE F[k - 1]
    IN  F[Len(tbl)]

\* UPDATE tbl SET ... WHERE ...: the rows at the matching places take their
\* new value
UpdateWhere(tbl, matching, set) ==
    [i \in DOMAIN tbl |-> IF i \in matching THEN set[i] ELSE tbl[i]]

\* responses: the HTTP status, the detail or message, the rows of the JSON body
Response(status, detail, rows) == [status |-> status, detail |-> detail, rows |-> rows]
Message(m) == Response(200, m, <<>>)
Record(row) == Response(200, "record", <<row>>)
NullBody == Response(200, "null", <<>>)
Listing(rows) == Response(200, "list", rows)
HTTPException(status, detail) == Response(status, detail, <<>>)
ServerError == Response(500, "Internal Server Error", <<>>)

\* what the last step sent, without the body; NoResponse when it sent nothing
Sent(resp) == [status |-> resp.status, detail |-> resp.detail]
NoResponse == [status |-> 0, detail |-> "none"]

----------------------------------------------------------------------------
(* Requests: the pydantic models, filled from the small value sets *)

UserCreate == [username : Usernames, password : Passwords]
HTTPBasicCredentials == [username : Usernames, password : Passwords]

IntroReflection(v) ==
    [q1_important_events |-> v, q2_current_thoughts |-> v, q3_physical_symptoms |-> v,
     q4_current_feelings |-> v, q5_brought_closer |-> v, q6_brought_further |-> v,
     q7_change_in_10_weeks |-> v]

\* a DailyEntry with every optional field given, and one with only entry_date
\* (energy_level = None, selected_emotions = [], the rest None)
DailyEntryFull(d) ==
    [entry_date |-> d, energy_level |-> Some(3), selected_emotions |-> <<"joy">>,
     how_want_to_feel |-> Some("x"), daily_mantra |-> Some("x"),
     grateful_1 |-> Some("x"), grateful_2 |-> Some("x"), grateful_3 |-> Some("x"),
     goal_1 |-> Some("x"), goal_2 |-> Some("x"), goal_3 |-> Some("x"),
     selfcare_actions |-> Some("x"), free_journal |-> Some("x"),
     favorite_moment |-> Some("x")]

DailyEntryBare(d) ==
    [entry_date |-> d, energy_level |-> None, selected_emotions |-> <<>>,
     how_want_to_feel |-> None, daily_mantra |-> None,
     grateful_1 |-> None, grateful_2 |-> None, grateful_3 |-> None,
     goal_1 |-> None, goal_2 |-> None, goal_3 |-> None,
     selfcare_actions |-> None, free_journal |-> None,
     favorite_moment |-> None]

DailyEntry == {DailyEntryFull(d) : d \in Dates} \cup {DailyEntryBare(d) : d \in Dates}

WeeklyReflectionFull(w) ==
    [week_number |-> w, week_start_date |-> 20240101, week_end_date |-> 20240107,
     current_mood |-> Some("x"), important_results |-> Some("x"),
     important_realizations |-> Some("x"),
     proud_1 |-> Some("x"), proud_2 |-> Some("x"), proud_3 |-> Some("x"),
     proud_4 |-> Some("x"), proud_5 |-> Some("x"),
     change_phase |-> Some("x"), change_reflection |-> Some("x"),
     next_week_focus |-> Some("x"),
     task_1 |-> Some("x"), task_2 |-> Some("x"), task_3 |-> Some("x"),
     task_4 |-> Some("x"), task_5 |-> Some("x")]

WeeklyReflectionBare(w) ==
    [week_number |-> w, week_start_date |-> 20240108, week_end_date |-> 20240114,
     current_mood |-> None, important_results |-> None,
     important_realizations |-> None,
     proud_1 |-> None, proud_2 |-> None, proud_3 |-> None,
     proud_4 |-> None, proud_5 |-> None,
     change_phase |-> None, change_reflection |-> None,
     next_week_focus |-> None,
     task_1 |-> None, task_2 |-> None, task_3 |-> None,
     task_4 |-> None, task_5 |-> None]

WeeklyReflection ==
    {WeeklyReflectionFull(w) : w \in Weeks} \cup {WeeklyReflectionBare(w) : w \in Weeks}

FinalReflection(v) ==
    [q1_starting_point |-> v, q2_feeling_and_goal |-> v, q3_journey_obstacles |-> v,
     q4_arrival_changes |-> v, q5_self_learning |-> v, q6_future_path |-> v,
     q7_journaling_impact |-> v, q8_celebration |-> v]

\* limit query parameter of list_entries (30 is the default)
Limits == {1, 30}

NoUser == [id |-> 0, username |-> "", intro_completed |-> FALSE]

----------------------------------------------------------------------------
(* Initial state: empty tables, no request in flight *)

Init ==
    /\ users = <<>>
    /\ user_settings = <<>>
    /\ intro_reflection = <<>>
    /\ daily_entries = <<>>
    /\ weekly_reflections = <<>>
    /\ final_reflection = <<>>
    /\ next_user_id = 1
    /\ pc = [p \in Procs |-> "idle"]
    /\ current_user = [p \in Procs |-> NoUser]
    /\ user_id = [p \in Procs |-> 0]
    /\ result = NoResponse
    /\ served = 0
    /\ reg_ok = [n \in Usernames |-> 0]
    /\ last_update = <<>>

\* the request of caller p ends: its response goes out and its locals are dropped
Respond(p, resp) ==
    /\ result' = Sent(resp)
    /\ pc' = [pc EXCEPT ![p] = "idle"]
    /\ current_user' = [current_user EXCEPT ![p] = NoUser]
    /\ user_id' = [user_id EXCEPT ![p] = 0]

\* a writing request is taken while the budget of the run lasts
Write == served < MaxWrites /\ served' = served + 1

\* a handler body starts once the dependency has resolved
Authenticated(p) == pc[p] = "authenticated"

----------------------------------------------------------------------------
(* Authentication dependency *)

\* mutant: the password is not compared
fetch_user_by_name(username, password_hash) ==
    Select(users, {i \in DOMAIN users : users[i].username = username})

\* SELECT id, username, intro_completed FROM users
\*   WHERE username = $1 AND password_hash = $2
fetch_user(username, password_hash) ==
    Select(users, {i \in DOMAIN users :
        users[i].username = username /\ users[i].password_hash = password_hash})

get_current_user(p, credentials) ==
    /\ pc[p] = "idle"
    /\ LET user == fetch_user(credentials.username, hash_password(credentials.password))
       IN  IF user = <<>>
           THEN Respond(p, HTTPException(401, "Invalid credentials"))
           ELSE /\ current_user' = [current_user EXCEPT ![p] =
                        [id |-> user[1].id, username |-> user[1].username,
                         intro_completed |-> user[1].intro_completed]]
                /\ pc' = [pc EXCEPT ![p] = "authenticated"]
                /\ result' = NoResponse
                /\ UNCHANGED user_id
    /\ UNCHANGED <<tables, next_user_id, served, history>>

----------------------------------------------------------------------------
(* Registration *)

\* mutant: no unique violation is raised
NoUniqueViolation(username) == FALSE

\* the UNIQUE constraint on users.username, whose violation register catches
UniqueViolation(username) == \E i \in DOMAIN users : users[i].username = username

\* INSERT INTO users (username, password_hash) VALUES ($1, $2) RETURNING id
register(p, user) ==
    /\ pc[p] = "idle"
    /\ Write
    /\ IF UniqueViolation(user.username)
       THEN /\ Respond(p, HTTPException(400, "Username already exists"))
            /\ UNCHANGED <<users, next_user_id>>
       ELSE /\ users' = Append(users,
                    [id |-> next_user_id, username |-> user.username,
                     password_hash |-> hash_password(user.password),
                     intro_completed |-> DefaultIntroCompleted])
            /\ next_user_id' = next_user_id + 1
            /\ user_id' = [user_id EXCEPT ![p] = next_user_id]
            /\ pc' = [pc EXCEPT ![p] = "register_settings"]
            /\ result' = NoResponse
            /\ UNCHANGED current_user
    /\ UNCHANGED <<user_settings, intro_reflection, daily_entries, weekly_reflections,
                   final_reflection, history>>

\* the username of the row a pending registration inserted
Registering(p) ==
    LET i == CHOOSE i \in DOMAIN users : users[i].id = user_id[p] IN users[i].username

\* INSERT INTO user_settings (user_id) VALUES ($1), then the success response
register_settings(p) ==
    /\ pc[p] = "register_settings"
    /\ user_settings' = Append(user_settings,
            [user_id |-> user_id[p], emotion_wheel |-> DefaultEmotionWheel])
    /\ Respond(p, Response(200, "User created successfully", <<[user_id |-> user_id[p]]>>))
    /\ reg_ok' = [reg_ok EXCEPT ![Registering(p)] = @ + 1]
    /\ UNCHANGED <<users, intro_reflection, daily_entries, weekly_reflections,
                   final_reflection, next_user_id, served, last_update>>

----------------------------------------------------------------------------
(* User status *)

get_user_status(p) ==
    /\ Authenticated(p)
    /\ LET user_data ==
               Select(users, {i \in DOMAIN users : users[i].id = current_user[p].id})[1]
       IN  Respond(p, Record([user_id |-> user_data.id, username |-> user_data.username,
                           intro_completed |-> user_data.intro_completed]))
    /\ UNCHANGED <<tables, next_user_id, served, history>>

----------------------------------------------------------------------------
(* INSERT ... ON CONFLICT (key) DO UPDATE SET ... *)

Upsert(tbl, conflict, new, set) ==
    IF conflict # {}
    THEN UpdateWhere(tbl, conflict, set)
    ELSE Append(tbl, new)

----------------------------------------------------------------------------
(* Intro reflection *)

IntroInsert(uid, r) ==
    [user_id |-> uid,
     q1_important_events |-> r.q1_important_events,
     q2_current_thoughts |-> r.q2_current_thoughts,
     q3_physical_symptoms |-> r.q3_physical_symptoms,
     q4_current_feelings |-> r.q4_current_feelings,
     q5_brought_closer |-> r.q5_brought_closer,
     q6_brought_further |-> r.q6_brought_further,
     q7_change_in_10_weeks |-> r.q7_change_in_10_weeks]

IntroDoUpdate(row, r) ==
    [row EXCEPT !.q1_important_events = r.q1_important_events,
                !.q2_current_thoughts = r.q2_current_thoughts,
                !.q3_physical_symptoms = r.q3_physical_symptoms,
                !.q4_current_feelings = r.q4_current_feelings,
                !.q5_brought_closer = r.q5_brought_closer,
                !.q6_brought_further = r.q6_brought_further,
                !.q7_change_in_10_weeks = r.q7_change_in_10_weeks]

\* first statement: the upsert of the reflection
save_intro_reflection(p, reflection) ==
    /\ Authenticated(p)
    /\ Write
    /\ LET uid == current_user[p].id
           conflict == {i \in DOMAIN intro_reflection : intro_reflection[i].user_id = uid}
           set == [i \in DOMAIN intro_reflection |->
                       IntroDoUpdate(intro_reflection[i], reflection)]
       IN  intro_reflection' =
               Upsert(intro_reflection, conflict, IntroInsert(uid, reflection), set)
    /\ pc' = [pc EXCEPT ![p] = "mark_intro_completed"]
    /\ result' = NoResponse
    /\ UNCHANGED <<users, user_settings, daily_entries, weekly_reflections,
                   final_reflection, next_user_id, current_user, user_id, history>>

\* mutant: the UPDATE has no WHERE clause
SetIntroCompletedEverywhere(uid) ==
    [i \in DOMAIN users |-> [users[i] EXCEPT !.intro_completed = TRUE]]

\* UPDATE users SET intro_completed = TRUE WHERE id = $1
SetIntroCompleted(uid) ==
    UpdateWhere(users, {i \in DOMAIN users : users[i].id = uid},
                [i \in DOMAIN users |-> [users[i] EXCEPT !.intro_completed = TRUE]])

\* second statement: mark intro as completed, then the success response
mark_intro_completed(p) ==
    /\ pc[p] = "mark_intro_completed"
    /\ users' = SetIntroCompleted(current_user[p].id)
    /\ Respond(p, Message("Intro reflection saved successfully"))
    /\ UNCHANGED <<user_settings, intro_reflection, daily_entries, weekly_reflections,
                   final_reflection, next_user_id, served, history>>

\* mutant: an absent intro reflection is answered like an absent daily entry
get_intro_reflection_null(p) ==
    /\ Authenticated(p)
    /\ LET reflection == Select(intro_reflection,
               {i \in DOMAIN intro_reflection :
                   intro_reflection[i].user_id = current_user[p].id})
       IN  IF reflection = <<>>
           THEN Respond(p, NullBody)
           ELSE Respond(p, Record(reflection[1]))
    /\ UNCHANGED <<tables, next_user_id, served, history>>

get_intro_reflection(p) ==
    /\ Authenticated(p)
    /\ LET reflection == Select(intro_reflection,
               {i \in DOMAIN intro_reflection :
                   intro_reflection[i].user_id = current_user[p].id})
       IN  IF reflection = <<>>
           THEN Respond(p, HTTPException(404, "Intro reflection not found"))
           ELSE Respond(p, Record(reflection[1]))
    /\ UNCHANGED <<tables, next_user_id, served, history>>

----------------------------------------------------------------------------
(* Daily entries *)

DailyInsert(uid, r) ==
    [user_id |-> uid, entry_date |-> r.entry_date,
     energy_level |-> r.energy_level, selected_emotions |-> r.selected_emotions,
     how_want_to_feel |-> r.how_want_to_feel, daily_mantra |-> r.daily_mantra,
     grateful_1 |-> r.grateful_1, grateful_2 |-> r.grateful_2,
     grateful_3 |-> r.grateful_3,
     goal_1 |-> r.goal_1, goal_2 |-> r.goal_2, goal_3 |-> r.goal_3,
     selfcare_actions |-> r.selfcare_actions, free_journal |-> r.free_journal,
     favorite_moment |-> r.favorite_moment]

DailyDoUpdate(row, r) ==
    [row EXCEPT !.energy_level = r.energy_level,
                !.selected_emotions = r.selected_emotions,
                !.how_want_to_feel = r.how_want_to_feel,
                !.daily_mantra = r.daily_mantra,
                !.grateful_1 = r.grateful_1,
                !.grateful_2 = r.grateful_2,
                !.grateful_3 = r.grateful_3,
                !.goal_1 = r.goal_1,
                !.goal_2 = r.goal_2,
                !.goal_3 = r.goal_3,
                !.selfcare_actions = r.selfcare_actions,
                !.free_journal = r.free_journal,
                !.favorite_moment = r.favorite_moment]

save_daily_entry(p, entry) ==
    /\ Authenticated(p)
    /\ Write
    /\ LET uid == current_user[p].id
           conflict == {i \in DOMAIN daily_entries :
                           /\ daily_entries[i].user_id = uid
                           /\ daily_entries[i].entry_date = entry.entry_date}
           set == [i \in DOMAIN daily_entries |-> DailyDoUpdate(daily_entries[i], entry)]
       IN  daily_entries' = Upsert(daily_entries, conflict, DailyInsert(uid, entry), set)
    /\ Respond(p, Message("Entry saved successfully"))
    /\ UNCHANGED <<users, user_settings, intro_reflection, weekly_reflections,
                   final_reflection, next_user_id, history>>

get_daily_entry(p, entry_date) ==
    /\ Authenticated(p)
    /\ LET entry == Select(daily_entries,
               {i \in DOMAIN daily_entries :
                   /\ daily_entries[i].user_id = current_user[p].id
                   /\ daily_entries[i].entry_date = entry_date})
       IN  IF entry = <<>>
           THEN Respond(p, NullBody)
           ELSE Respond(p, Record(entry[1]))
    /\ UNCHANGED <<tables, next_user_id, served, history>>

\* ORDER BY key DESC: the row at position k is the one with k - 1 rows before it
OrderByDesc(rows, key) ==
    LET n == Len(rows)
        Before(j, i) == key[j] > key[i] \/ (key[j] = key[i] /\ j < i)
        Rank(i) == Cardinality({j \in 1..n : Before(j, i)}) + 1
    IN  [k \in 1..n |-> rows[CHOOSE i \in 1..n : Rank(i) = k]]

\* LIMIT n
Limit(rows, n) == IF Len(rows) <= n THEN rows ELSE SubSeq(rows, 1, n)

list_entries(p, limit) ==
    /\ Authenticated(p)
    /\ LET selected == Select(daily_entries,
               {i \in DOMAIN daily_entries : daily_entries[i].user_id = current_user[p].id})
           key == [i \in DOMAIN selected |-> selected[i].entry_date]
           entries == Limit(OrderByDesc(selected, key), limit)
       IN  Respond(p, Listing([i \in DOMAIN entries |->
               [entry_date |-> entries[i].entry_date,
                selected_emotions |-> entries[i].selected_emotions]]))
    /\ UNCHANGED <<tables, next_user_id, served, history>>

----------------------------------------------------------------------------
(* Weekly reflections *)

WeeklyInsert(uid, r) ==
    [user_id |-> uid, week_number |-> r.week_number,
     week_start_date |-> r.week_start_date, week_end_date |-> r.week_end_date,
     current_mood |-> r.current_mood, important_results |-> r.important_results,
     important_realizations |-> r.important_realizations,
     proud_1 |-> r.proud_1, proud_2 |-> r.proud_2, proud_3 |-> r.proud_3,
     proud_4 |-> r.proud_4, proud_5 |-> r.proud_5,
     change_phase |-> r.change_phase, change_reflection |-> r.change_reflection,
     next_week_focus |-> r.next_week_focus,
     task_1 |-> r.task_1, task_2 |-> r.task_2, task_3 |-> r.task_3,
     task_4 |-> r.task_4, task_5 |-> r.task_5]

\* the DO UPDATE SET list names neither week_start_date nor week_end_date
WeeklyDoUpdate(row, r) ==
    [row EXCEPT !.current_mood = r.current_mood,
                !.important_results = r.important_results,
                !.important_realizations = r.important_realizations,
                !.proud_1 = r.proud_1,
                !.proud_2 = r.proud_2,
                !.proud_3 = r.proud_3,
                !.proud_4 = r.proud_4,
                !.proud_5 = r.proud_5,
                !.change_phase = r.change_phase,
                !.change_reflection = r.change_reflection,
                !.next_week_focus = r.next_week_focus,
                !.task_1 = r.task_1,
                !.task_2 = r.task_2,
                !.task_3 = r.task_3,
                !.task_4 = r.task_4,
                !.task_5 = r.task_5]

save_weekly_reflection(p, reflection) ==
    /\ Authenticated(p)
    /\ Write
    /\ LET uid == current_user[p].id
           conflict == {i \in DOMAIN weekly_reflections :
                           /\ weekly_reflections[i].user_id = uid
                           /\ weekly_reflections[i].week_number = reflection.week_number}
           set == [i \in DOMAIN weekly_reflections |->
                       WeeklyDoUpdate(weekly_reflections[i], reflection)]
       IN  weekly_reflections' =
               Upsert(weekly_reflections, conflict, WeeklyInsert(uid, reflection), set)
    /\ Respond(p, Message("Weekly reflection saved successfully"))
    /\ UNCHANGED <<users, user_settings, intro_reflection, daily_entries,
                   final_reflection, next_user_id, history>>

get_weekly_reflection(p, week_number) ==
    /\ Authenticated(p)
    /\ LET reflection == Select(weekly_reflections,
               {i \in DOMAIN weekly_reflections :
                   /\ weekly_reflections[i].user_id = current_user[p].id
                   /\ weekly_reflections[i].week_number = week_number})
       IN  IF reflection = <<>>
           THEN Respond(p, NullBody)
           ELSE Respond(p, Record(reflection[1]))
    /\ UNCHANGED <<tables, next_user_id, served, history>>

list_weekly_reflections(p) ==
    /\ Authenticated(p)
    /\ LET reflections == Select(weekly_reflections,
               {i \in DOMAIN weekly_reflections :
                   weekly_reflections[i].user_id = current_user[p].id})
           key == [i \in DOMAIN reflections |-> reflections[i].week_number]
       IN  Respond(p, Listing(OrderByDesc(reflections, key)))
    /\ UNCHANGED <<tables, next_user_id, served, history>>

----------------------------------------------------------------------------
(* Final reflection *)

FinalInsert(uid, r) ==
    [user_id |-> uid,
     q1_starting_point |-> r.q1_starting_point,
     q2_feeling_and_goal |-> r.q2_feeling_and_goal,
     q3_journey_obstacles |-> r.q3_journey_obstacles,
     q4_arrival_changes |-> r.q4_arrival_changes,
     q5_self_learning |-> r.q5_self_learning,
     q6_future_path |-> r.q6_future_path,
     q7_journaling_impact |-> r.q7_journaling_impact,
     q8_celebration |-> r.q8_celebration]

FinalDoUpdate(row, r) ==
    [row EXCEPT !.q1_starting_point = r.q1_starting_point,
                !.q2_feeling_and_goal = r.q2_feeling_and_goal,
                !.q3_journey_obstacles = r.q3_journey_obstacles,
                !.q4_arrival_changes = r.q4_arrival_changes,
                !.q5_self_learning = r.q5_self_learning,
                !.q6_future_path = r.q6_future_path,
                !.q7_journaling_impact = r.q7_journaling_impact,
                !.q8_celebration = r.q8_celebration]

save_final_reflection(p, reflection) ==
    /\ Authenticated(p)
    /\ Write
    /\ LET uid == current_user[p].id
           conflict == {i \in DOMAIN final_reflection : final_reflection[i].user_id = uid}
           set == [i \in DOMAIN final_reflection |->
                       FinalDoUpdate(final_reflection[i], reflection)]
       IN  final_reflection' =
               Upsert(final_reflection, conflict, FinalInsert(uid, reflection), set)
    /\ Respond(p, Message("Final reflection saved successfully"))
    /\ UNCHANGED <<users, user_settings, intro_reflection, daily_entries,
                   weekly_reflections, next_user_id, history>>

get_final_reflection(p) ==
    /\ Authenticated(p)
    /\ LET reflection == Select(final_reflection,
               {i \in DOMAIN final_reflection :
                   final_reflection[i].user_id = current_user[p].id})
       IN  IF reflection = <<>>
           THEN Respond(p, NullBody)
           ELSE Respond(p, Record(reflection[1]))
    /\ UNCHANGED <<tables, next_user_id, served, history>>

----------------------------------------------------------------------------
(* Emotion wheel settings *)

\* what get_emotion_wheel returns to the user with id uid
emotion_wheel_response(uid) ==
    LET settings == Select(user_settings,
            {i \in DOMAIN user_settings : user_settings[i].user_id = uid})
    IN  IF settings = <<>>
        THEN HTTPException(404, "Settings not found")
        ELSE Record(settings[1].emotion_wheel)

get_emotion_wheel(p) ==
    /\ Authenticated(p)
    /\ Respond(p, emotion_wheel_response(current_user[p].id))
    /\ UNCHANGED <<tables, next_user_id, served, history>>

\* UPDATE user_settings SET emotion_wheel = $1, updated_at = NOW() WHERE user_id = $2
update_emotion_wheel(p, emotion_wheel) ==
    /\ Authenticated(p)
    /\ Write
    /\ user_settings' = UpdateWhere(user_settings,
            {i \in DOMAIN user_settings : user_settings[i].user_id = current_user[p].id},
            [i \in DOMAIN user_settings |->
                [user_settings[i] EXCEPT !.emotion_wheel = emotion_wheel]])
    /\ Respond(p, Message("Emotion wheel updated successfully"))
    /\ last_update' = [i \in 1..(next_user_id - 1) |->
            IF i = current_user[p].id THEN Some(emotion_wheel)
            ELSE IF i \in DOMAIN last_update THEN last_update[i] ELSE None]
    /\ UNCHANGED <<users, intro_reflection, daily_entries, weekly_reflections,
                   final_reflection, next_user_id, reg_ok>>

----------------------------------------------------------------------------
(* Health check *)

health_check(p) ==
    /\ pc[p] = "idle"
    /\ Respond(p, Response(200, "healthy", <<>>))
    /\ UNCHANGED <<tables, next_user_id, served, history>>

----------------------------------------------------------------------------
(* A statement fails for a reason other than a unique violation (the       *)
(* connection is lost, the pool times out): the exception leaves the       *)
(* async with block, the connection is released, the statements already    *)
(* executed stay committed, and the framework answers 500.                 *)

store_fault(p) ==
    /\ pc[p] # "idle"
    /\ Respond(p, ServerError)
    /\ UNCHANGED <<tables, next_user_id, served, history>>

----------------------------------------------------------------------------
(* Next-state relation *)

Next ==
    \E p \in Procs :
        \/ \E credentials \in HTTPBasicCredentials : get_current_user(p, credentials)
        \/ \E user \in UserCreate :
              /\ Taken(user.username) \/ user.password = FirstPassword(user.username)
              /\ register(p, user)
        \/ register_settings(p)
        \/ get_user_status(p)
        \/ \E v \in Texts : save_intro_reflection(p, IntroReflection(v))
        \/ mark_intro_completed(p)
        \/ get_intro_reflection(p)
        \/ \E entry \in DailyEntry : save_daily_entry(p, entry)
        \/ \E entry_date \in Dates : get_daily_entry(p, entry_date)
        \/ \E limit \in Limits : list_entries(p, limit)
        \/ \E reflection \in WeeklyReflection : save_weekly_reflection(p, reflection)
        \/ \E week_number \in Weeks : get_weekly_reflection(p, week_number)
        \/ list_weekly_reflections(p)
        \/ \E v \in Texts : save_final_reflection(p, FinalReflection(v))
        \/ get_final_reflection(p)
        \/ get_emotion_wheel(p)
        \/ \E emotion_wheel \in Wheels : update_emotion_wheel(p, emotion_wheel)
        \/ health_check(p)
        \/ store_fault(p)

Spec == Init /\ [][Next]_vars

----------------------------------------------------------------------------
(* Vocabulary of the properties *)

\* the rows a table holds for a user, or for a (user, natural key)
UserRows(uid) == Select(users, {i \in DOMAIN users : users[i].id = uid})
RowsOf(tbl, uid) == Select(tbl, {i \in DOMAIN tbl : tbl[i].user_id = uid})
DailyRows(tbl, uid, d) ==
    Select(tbl, {i \in DOMAIN tbl : tbl[i].user_id = uid /\ tbl[i].entry_date = d})
WeeklyRows(tbl, uid, w) ==
    Select(tbl, {i \in DOMAIN tbl : tbl[i].user_id = uid /\ tbl[i].week_number = w})

\* the stored row has, in every field of the request, the request's value
Carries(row, r) == \A f \in DOMAIN r : row[f] = r[f]
OneRowCarrying(rows, r) == Len(rows) = 1 /\ Carries(rows[1], r)

NotFound(sent) == sent.status = 404
NoRecord(sent) == sent.status = 200 /\ sent.detail = "null"
Unauthorized(sent) == sent.status = 401
DuplicateUsername(sent) == sent.status = 400 /\ sent.detail = "Username already exists"

----------------------------------------------------------------------------
(* Properties *)

\* C1: registration is both-or-neither: in every state of the store a user row
\* exists if and only if that user's user_settings row exists.
C1_RegistrationBothOrNeither ==
    \A uid \in 1..(next_user_id - 1) :
        (UserRows(uid) # <<>>) <=> (RowsOf(user_settings, uid) # <<>>)

\* C2: in every state of the store, an intro_reflection row for a user implies
\* that user's intro_completed is true.
C2_IntroImpliesCompleted ==
    \A i \in DOMAIN intro_reflection :
        \E j \in DOMAIN users :
            users[j].id = intro_reflection[i].user_id /\ users[j].intro_completed

\* C3: after any save, the store holds exactly one row for the saved (user,
\* natural key), that row carries the values of this most recent save, and the
\* save is acknowledged (it never fails on an existing key).
C3_OneRowLatestValues ==
    [][\A p \in Procs :
        LET uid == current_user[p].id IN
        /\ \A v \in Texts :
              save_intro_reflection(p, IntroReflection(v)) =>
                  OneRowCarrying(RowsOf(intro_reflection', uid), IntroReflection(v))
        /\ \A entry \in DailyEntry :
              save_daily_entry(p, entry) =>
                  /\ OneRowCarrying(DailyRows(daily_entries', uid, entry.entry_date), entry)
                  /\ result'.status = 200
        /\ \A reflection \in WeeklyReflection :
              save_weekly_reflection(p, reflection) =>
                  /\ OneRowCarrying(
                        WeeklyRows(weekly_reflections', uid, reflection.week_number),
                        reflection)
                  /\ result'.status = 200
        /\ \A v \in Texts :
              save_final_reflection(p, FinalReflection(v)) =>
                  /\ OneRowCarrying(RowsOf(final_reflection', uid), FinalReflection(v))
                  /\ result'.status = 200
      ]_vars

\* C4: upsert is a full replace: the row stored for the key after a save is the
\* row the same request would have produced as a fresh insert into an empty
\* table, for every record kind.
C4_UpsertFullReplace ==
    [][\A p \in Procs :
        LET uid == current_user[p].id IN
        /\ \A v \in Texts :
              save_intro_reflection(p, IntroReflection(v)) =>
                  RowsOf(intro_reflection', uid) = <<IntroInsert(uid, IntroReflection(v))>>
        /\ \A entry \in DailyEntry :
              save_daily_entry(p, entry) =>
                  DailyRows(daily_entries', uid, entry.entry_date) = <<DailyInsert(uid, entry)>>
        /\ \A reflection \in WeeklyReflection :
              save_weekly_reflection(p, reflection) =>
                  WeeklyRows(weekly_reflections', uid, reflection.week_number)
                      = <<WeeklyInsert(uid, reflection)>>
        /\ \A v \in Texts :
              save_final_reflection(p, FinalReflection(v)) =>
                  RowsOf(final_reflection', uid) = <<FinalInsert(uid, FinalReflection(v))>>
      ]_vars

\* C5 as stated: with no saved row, get of an intro reflection and get of a
\* final reflection both answer NotFound, get of a daily entry and get of a
\* weekly reflection answer "no record" with success.
C5_NotFoundPolicyAsStated ==
    [][\A p \in Procs :
        LET uid == current_user[p].id IN
        /\ (get_intro_reflection(p) /\ RowsOf(intro_reflection, uid) = <<>>)
              => NotFound(result')
        /\ (get_final_reflection(p) /\ RowsOf(final_reflection, uid) = <<>>)
              => NotFound(result')
        /\ \A d \in Dates :
              (get_daily_entry(p, d) /\ DailyRows(daily_entries, uid, d) = <<>>)
                  => NoRecord(result')
        /\ \A w \in Weeks :
              (get_weekly_reflection(p, w) /\ WeeklyRows(weekly_reflections, uid, w) = <<>>)
                  => NoRecord(result')
      ]_vars

\* C5 amended: with no saved row, only get of an intro reflection answers
\* NotFound; get of a final reflection, of a daily entry and of a weekly
\* reflection answer "no record" with success.
C5_NotFoundPolicy ==
    [][\A p \in Procs :
        LET uid == current_user[p].id IN
        /\ (get_intro_reflection(p) /\ RowsOf(intro_reflection, uid) = <<>>)
              => NotFound(result')
        /\ (get_final_reflection(p) /\ RowsOf(final_reflection, uid) = <<>>)
              => NoRecord(result')
        /\ \A d \in Dates :
              (get_daily_entry(p, d) /\ DailyRows(daily_entries, uid, d) = <<>>)
                  => NoRecord(result')
        /\ \A w \in Weeks :
              (get_weekly_reflection(p, w) /\ WeeklyRows(weekly_reflections, uid, w) = <<>>)
                  => NoRecord(result')
      ]_vars

\* a get of an intro reflection that was never saved has just answered 404
C5_Witness ==
    /\ result.status = 404
    /\ result.detail = "Intro reflection not found"
    /\ users # <<>>

\* the stored users a credential pair matches: same username, and the stored
\* hash is the hash of the supplied password
CredentialMatches(c) ==
    {i \in DOMAIN users :
        users[i].username = c.username /\ users[i].password_hash = hash_password(c.password)}

\* every row of new that is not in old at the same place belongs to user uid
ChangesOnlyRowsOf(old, new, uid) ==
    /\ Len(new) >= Len(old)
    /\ \A i \in DOMAIN new : (i \notin DOMAIN old \/ new[i] # old[i]) => new[i].user_id = uid

\* caller p holds the identity of a stored user
HoldsIdentity(p) ==
    \E i \in DOMAIN users :
        users[i].id = current_user[p].id /\ users[i].username = current_user[p].username

\* C6: the authentication gate. Credentials matching no stored user end in 401,
\* the caller goes back to idle without running a handler and no table changes;
\* matching credentials give the caller the identity of the matched user, which
\* it keeps for the whole request; the outcome is a function of the stored
\* users and the supplied credentials; and rows of the protected tables change
\* only in a step of an authenticated caller, and only rows of its own user.
C6_AuthenticationGate ==
    [][/\ \A p \in Procs : \A c \in HTTPBasicCredentials :
              get_current_user(p, c) =>
                  /\ tables' = tables
                  /\ IF CredentialMatches(c) = {}
                     THEN Unauthorized(result') /\ pc'[p] = "idle"
                     ELSE /\ pc'[p] = "authenticated"
                          /\ \E i \in CredentialMatches(c) :
                                /\ current_user'[p].id = users[i].id
                                /\ current_user'[p].username = c.username
       /\ \A p \in Procs :
              (pc'[p] \in {"authenticated", "mark_intro_completed"}) =>
                  /\ HoldsIdentity(p)'
                  /\ pc[p] # "idle" => current_user'[p] = current_user[p]
       /\ (\/ intro_reflection' # intro_reflection
           \/ daily_entries' # daily_entries
           \/ weekly_reflections' # weekly_reflections
           \/ final_reflection' # final_reflection) =>
              \E p \in Procs :
                  /\ pc[p] = "authenticated"
                  /\ HoldsIdentity(p)
                  /\ ChangesOnlyRowsOf(intro_reflection, intro_reflection', current_user[p].id)
                  /\ ChangesOnlyRowsOf(daily_entries, daily_entries', current_user[p].id)
                  /\ ChangesOnlyRowsOf(weekly_reflections, weekly_reflections',
                                       current_user[p].id)
                  /\ ChangesOnlyRowsOf(final_reflection, final_reflection', current_user[p].id)
      ]_vars

\* both usernames are registered and a request has just been refused with 401:
\* its password was the wrong one
C6_Witness ==
    /\ Unauthorized(result)
    /\ \A n \in Usernames : \E i \in DOMAIN users : users[i].username = n
    /\ \E p \in Procs : pc[p] = "authenticated"

\* C7: intro_completed never goes back to false, and it goes to true only in
\* the step that completes an intro-reflection save, for the saving user: that
\* step sets the saver's flag and leaves every other users row as it was.
C7_IntroCompletedOnceForSaver ==
    [][/\ \A i \in DOMAIN users :
              /\ i \in DOMAIN users'
              /\ users'[i].id = users[i].id
              /\ users[i].intro_completed => users'[i].intro_completed
              /\ (~users[i].intro_completed /\ users'[i].intro_completed) =>
                    \E p \in Procs :
                        mark_intro_completed(p) /\ current_user[p].id = users[i].id
       /\ \A p \in Procs :
              mark_intro_completed(p) =>
                  \A i \in DOMAIN users :
                      IF users[i].id = current_user[p].id
                      THEN users'[i].intro_completed
                      ELSE users'[i] = users[i]
      ]_vars

\* an intro-reflection save has just been acknowledged, one user has completed
\* the intro and another has not
C7_Witness ==
    /\ result.detail = "Intro reflection saved successfully"
    /\ \E i, j \in DOMAIN users : users[i].intro_completed /\ ~users[j].intro_completed

\* C8: two upserts to the same (user, natural key) whose requests overlap: the
\* second one is written by a caller that was already authenticated when the
\* first one was acknowledged in the step before. Both complete, and the store
\* then holds exactly one row for the key, whose fields are all those of the
\* second request or all those the first write left: never a mix.
C8_ConcurrentUpsertsNoMix ==
    [][\A q \in Procs :
        LET uid == current_user[q].id IN
        /\ \A entry \in DailyEntry :
              (/\ result.detail = "Entry saved successfully"
               /\ DailyRows(daily_entries, uid, entry.entry_date) # <<>>
               /\ save_daily_entry(q, entry)) =>
                  LET after == DailyRows(daily_entries', uid, entry.entry_date) IN
                  /\ Len(after) = 1
                  /\ \/ after = <<DailyInsert(uid, entry)>>
                     \/ after = DailyRows(daily_entries, uid, entry.entry_date)
        /\ \A reflection \in WeeklyReflection :
              (/\ result.detail = "Weekly reflection saved successfully"
               /\ WeeklyRows(weekly_reflections, uid, reflection.week_number) # <<>>
               /\ save_weekly_reflection(q, reflection)) =>
                  LET after == WeeklyRows(weekly_reflections', uid, reflection.week_number) IN
                  /\ Len(after) = 1
                  /\ \/ after = <<WeeklyInsert(uid, reflection)>>
                     \/ after = WeeklyRows(weekly_reflections, uid, reflection.week_number)
      ]_vars

\* C9: a register call for a username that is stored answers "Username already
\* exists" and leaves users and user_settings as they were; no step changes the
\* username or the password hash of a stored user; usernames stay unique; a
\* username gets the success answer at most once, and exactly once when its
\* user row and settings row are both stored.
C9_RegisterOncePerUsername ==
    [][/\ \A p \in Procs : \A user \in UserCreate :
              register(p, user) =>
                  IF \E i \in DOMAIN users : users[i].username = user.username
                  THEN /\ DuplicateUsername(result')
                       /\ users' = users
                       /\ user_settings' = user_settings
                  ELSE /\ ~DuplicateUsername(result')
                       /\ Len(users') = Len(users) + 1
                       /\ users'[Len(users')].username = user.username
                       /\ users'[Len(users')].password_hash = hash_password(user.password)
       /\ \A i \in DOMAIN users :
              /\ i \in DOMAIN users'
              /\ users'[i].username = users[i].username
              /\ users'[i].password_hash = users[i].password_hash
       /\ \A i, j \in DOMAIN users' : users'[i].username = users'[j].username => i = j
       /\ \A n \in Usernames : reg_ok'[n] <= 1
       /\ \A i \in DOMAIN users' :
              RowsOf(user_settings', users'[i].id) # <<>> => reg_ok'[users'[i].username] = 1
      ]_vars

\* a username was registered with success once, and a later attempt on it has
\* just been answered "Username already exists"
C9_Witness ==
    /\ DuplicateUsername(result)
    /\ Len(users) = 1
    /\ reg_ok[users[1].username] = 1

\* C10: once update_emotion_wheel has answered success to a user, a get by that
\* user (with no update of that user in between) returns exactly the document
\* of that update: never 404, never another document.
C10_UpdateThenGet ==
    \A p \in Procs :
        LET uid == current_user[p].id IN
        (Authenticated(p) /\ uid \in DOMAIN last_update /\ last_update[uid] # None) =>
            emotion_wheel_response(uid) = Record(last_update[uid][1])

====
